---- MODULE Spec2Model ----
(***************************************************************************)
(* Model of main.py: the command-line dispatch, the construction of Model  *)
(* (hyper-parameters, 80/20 split of the dataset indices), the training    *)
(* loop of Model.train (batch passes, per-epoch averages, checkpoint on    *)
(* improvement, early stopping, persistence of the loss histories), and    *)
(* the infer and curve-plotting modes.                                     *)
(*                                                                         *)
(* Floating point losses are modelled as exact rationals [s, n] (sum over  *)
(* count) kept in lowest terms; the value np.mean returns for an empty     *)
(* list is NaN.  The network weights are modelled by a version number: the *)
(* number of optimizer.step() calls applied to the freshly built network.  *)
(***************************************************************************)
EXTENDS Integers, Sequences, FiniteSets, TLC

\* ---------------------------------------------------------------- bounds
MaxN == 5           \* largest dataset size (number of files in the image directory)
MaxEpochs == 3      \* largest configured num_epochs
MaxPatience == 2    \* largest configured early_stopping_epochs
MaxLoss == 2        \* losses of test batches are drawn from 1..MaxLoss

\* ------------------------------------------------------- program constants
batch_size == 32

\* values of loss.item() in the test pass
Losses == 1..MaxLoss

\* values of loss.item() in the train pass: they are appended, averaged and pickled,
\* never compared, so one value stands for all of them
TrainLosses == {1}

\* ------------------------------------------------------------ float values
NaN == [s |-> 0, n |-> 0]

IsNaN(a) == a.n = 0

\* a < b on floats: every comparison with NaN is False
Lt(a, b) == /\ ~IsNaN(a)
            /\ ~IsNaN(b)
            /\ a.s * b.n < b.s * a.n

RECURSIVE GCD(_, _)
GCD(a, b) == IF b = 0 THEN a ELSE GCD(b, a % b)

RECURSIVE Sum(_)
Sum(seq) == IF seq = <<>> THEN 0 ELSE Head(seq) + Sum(Tail(seq))

\* np.mean of a list of batch losses; NaN for the empty list
Mean(seq) == IF Len(seq) = 0
             THEN NaN
             ELSE LET g == GCD(Sum(seq), Len(seq))
                  IN  [s |-> Sum(seq) \div g, n |-> Len(seq) \div g]

\* best_loss = 1e99: above every loss the network can produce
BestLossInit == [s |-> MaxLoss + 1, n |-> 1]

\* ------------------------------------------------------------------ split
RECURSIVE Perms(_)
\* the results np.random.shuffle can give for the list S (as a set of sequences)
Perms(S) == IF S = {} THEN {<<>>}
            ELSE UNION {{<<x>> \o p : p \in Perms(S \ {x})} : x \in S}

\* mutant: the ratio of the train share taken for the test share
SplitPointSwapped(N) == (8 * N) \div 10

\* split = int(np.floor(test_split * dataset_size)) with test_split = 0.2
SplitPoint(N) == (2 * N) \div 10

Range(seq) == {seq[i] : i \in DOMAIN seq}

\* mutant: the train slice starts one element early
TrainSliceOverlap(indices, split) ==
    SubSeq(indices, IF split = 0 THEN 1 ELSE split, Len(indices))

\* indices[split:]
TrainSlice(indices, split) == SubSeq(indices, split + 1, Len(indices))

\* indices[:split]
TestSlice(indices, split) == SubSeq(indices, 1, split)

\* len(DataLoader): ceil(len(sampler) / batch_size)
NumBatches(n, bs) == (n + bs - 1) \div bs

\* ------------------------------------------------------------------- main
\* mutant: three independent ifs
BranchesIndependent(a) == (IF a.train THEN <<"train">> ELSE <<>>)
                          \o (IF a.infer THEN <<"infer">> ELSE <<>>)
                          \o (IF a.curves THEN <<"curves">> ELSE <<>>)

\* the if / elif / elif chain of __main__: the modes one invocation runs, in order
Branches(a) == IF a.train THEN <<"train">>
               ELSE IF a.infer THEN <<"infer">>
               ELSE IF a.curves THEN <<"curves">>
               ELSE <<>>

VARIABLES
    args,                    \* parsed flags [train, infer, curves]
    pc,                      \* control point of the invocation
    todo,                    \* modes __main__ still has to run
    ran,                     \* modes entered by this invocation
    num_epochs,              \* self.num_epochs
    early_stopping_epochs,   \* self.early_stopping_epochs
    dataset_size,            \* len(self.dataset)
    train_indices,           \* indices held by train_sampler
    test_indices,            \* indices held by test_sampler
    net,                     \* weights of self.net (version)
    train_loss,              \* self.train_loss
    test_loss,               \* self.test_loss
    best_loss,               \* best_loss of train()
    early_stopping_counter,  \* early_stopping_counter of train()
    epoch,                   \* number of loop iterations completed
    train_loss_epoch,        \* batch losses of the current train pass
    test_loss_epoch,         \* batch losses of the current test pass
    batches_left,            \* batches the current DataLoader iterator still yields
    eval_nets,               \* weights used by the forward passes of the current test pass
    stepped_in,              \* passes in which optimizer.step() ran during the current epoch
    model_pt,                \* ./model.pt: the saved weights, and the test loss they scored
    saved_epochs,            \* epochs (1-based) in which torch.save was called
    pkl,                     \* train_loss.pkl and test_loss.pkl: the two pickled lists
    pkl_saves                \* number of save_loss_pkl calls of this invocation

vars == <<args, pc, todo, ran, num_epochs, early_stopping_epochs, dataset_size,
          train_indices, test_indices, net, train_loss, test_loss, best_loss,
          early_stopping_counter, epoch, train_loss_epoch, test_loss_epoch,
          batches_left, eval_nets, stepped_in, model_pt, saved_epochs, pkl, pkl_saves>>

config == <<num_epochs, early_stopping_epochs, dataset_size>>
split_vars == <<train_indices, test_indices>>
history == <<train_loss, test_loss>>
loop_vars == <<best_loss, early_stopping_counter, epoch>>
pass_vars == <<train_loss_epoch, test_loss_epoch, batches_left, eval_nets, stepped_in>>
files == <<model_pt, saved_epochs, pkl, pkl_saves>>
main_vars == <<args, todo, ran>>

\* a working directory without ./model.pt
NoModelFile == [exists |-> FALSE, weights |-> 0, loss |-> NaN]

\* a working directory without train_loss.pkl and test_loss.pkl
NoLossFiles == [exists |-> FALSE, train |-> <<>>, test |-> <<>>]

\* ------------------------------------------------------------------- Init
\* The state after argument parsing and Model(): a fresh working directory.
Init ==
    /\ args \in [train : BOOLEAN, infer : BOOLEAN, curves : BOOLEAN]
    /\ todo = Branches(args)
    /\ ran = {}
    /\ pc = "main"
    /\ num_epochs \in 0..MaxEpochs
    /\ early_stopping_epochs \in 0..MaxPatience
    /\ dataset_size \in 0..MaxN
    /\ \E indices \in Perms(0..(dataset_size - 1)) :
          LET split == SplitPoint(dataset_size)
          IN  /\ train_indices = Range(TrainSlice(indices, split))
              /\ test_indices = Range(TestSlice(indices, split))
    /\ net = 0
    /\ train_loss = <<>>
    /\ test_loss = <<>>
    /\ best_loss = BestLossInit
    /\ early_stopping_counter = 0
    /\ epoch = 0
    /\ train_loss_epoch = <<>>
    /\ test_loss_epoch = <<>>
    /\ batches_left = 0
    /\ eval_nets = {}
    /\ stepped_in = {}
    /\ model_pt = NoModelFile
    /\ saved_epochs = {}
    /\ pkl = NoLossFiles
    /\ pkl_saves = 0

\* ------------------------------------------------------------- __main__
\* if args.train: model.train() -- entry of train(): best_loss, early_stopping_counter
MainTrain ==
    /\ pc = "main"
    /\ todo # <<>>
    /\ Head(todo) = "train"
    /\ todo' = Tail(todo)
    /\ ran' = ran \cup {"train"}
    /\ best_loss' = BestLossInit
    /\ early_stopping_counter' = 0
    /\ epoch' = 0
    /\ pc' = "loop"
    /\ UNCHANGED <<args, config, split_vars, net, history, pass_vars, files>>

\* elif args.infer: model.load_model() -- torch.load raises when ./model.pt is missing
MainInfer ==
    /\ pc = "main"
    /\ todo # <<>>
    /\ Head(todo) = "infer"
    /\ todo' = Tail(todo)
    /\ ran' = ran \cup {"infer"}
    /\ IF ~model_pt.exists
       THEN /\ pc' = "error"
            /\ net' = net
       ELSE /\ pc' = "infer"
            /\ net' = model_pt.weights
    /\ UNCHANGED <<args, config, split_vars, history, loop_vars, pass_vars, files>>

\* model.infer_data(): next(enumerate(test_dataloader)) raises on an empty test set
InferData ==
    /\ pc = "infer"
    /\ pc' = IF test_indices = {} THEN "error" ELSE "main"
    /\ UNCHANGED <<main_vars, config, split_vars, net, history, loop_vars, pass_vars, files>>

\* elif args.curves: model.load_loss_pkl(); min(model.test_loss)
MainCurves ==
    /\ pc = "main"
    /\ todo # <<>>
    /\ Head(todo) = "curves"
    /\ todo' = Tail(todo)
    /\ ran' = ran \cup {"curves"}
    /\ IF ~pkl.exists
       THEN /\ pc' = "error"
            /\ UNCHANGED history
       ELSE /\ train_loss' = pkl.train
            /\ test_loss' = pkl.test
            /\ pc' = IF pkl.test = <<>> THEN "error" ELSE "plot"
    /\ UNCHANGED <<args, config, split_vars, net, loop_vars, pass_vars, files>>

\* model.plot_curves(): plt.plot(x, y) raises unless len(x) = len(y)
PlotCurves ==
    /\ pc = "plot"
    /\ pc' = IF Len(train_loss) = num_epochs /\ Len(test_loss) = num_epochs
             THEN "main" ELSE "error"
    /\ UNCHANGED <<main_vars, config, split_vars, net, history, loop_vars, pass_vars, files>>

\* no branch (left) to run: the script ends
MainExit ==
    /\ pc = "main"
    /\ todo = <<>>
    /\ pc' = "done"
    /\ UNCHANGED <<main_vars, config, split_vars, net, history, loop_vars, pass_vars, files>>

\* ------------------------------------------------------------ Model.train
\* for epoch in range(self.num_epochs): exhausted
LoopExhausted ==
    /\ pc = "loop"
    /\ epoch = num_epochs
    /\ pc' = "after_loop"
    /\ UNCHANGED <<main_vars, config, split_vars, net, history, loop_vars, pass_vars, files>>

\* mutant: the halt comes one epoch late
StopNowLate(counter, patience) == counter = patience + 1

\* if early_stopping_counter == self.early_stopping_epochs: break
StopNow(counter, patience) == counter = patience

EarlyStop ==
    /\ pc = "loop"
    /\ epoch # num_epochs
    /\ StopNow(early_stopping_counter, early_stopping_epochs)
    /\ pc' = "after_loop"
    /\ UNCHANGED <<main_vars, config, split_vars, net, history, loop_vars, pass_vars, files>>

\* the epoch starts: empty batch-loss lists, iterator over train_dataloader
EpochBegin ==
    /\ pc = "loop"
    /\ epoch # num_epochs
    /\ ~StopNow(early_stopping_counter, early_stopping_epochs)
    /\ train_loss_epoch' = <<>>
    /\ test_loss_epoch' = <<>>
    /\ batches_left' = NumBatches(Cardinality(train_indices), batch_size)
    /\ eval_nets' = {}
    /\ stepped_in' = {}
    /\ pc' = "train_pass"
    /\ UNCHANGED <<main_vars, config, split_vars, net, history, loop_vars, files>>

\* one train batch: forward, backward, optimizer.step(), loss.item() appended
TrainBatch ==
    /\ pc = "train_pass"
    /\ batches_left > 0
    /\ \E l \in TrainLosses : train_loss_epoch' = Append(train_loss_epoch, l)
    /\ net' = net + 1
    /\ stepped_in' = stepped_in \cup {pc}
    /\ batches_left' = batches_left - 1
    /\ UNCHANGED <<main_vars, pc, config, split_vars, history, loop_vars,
                   test_loss_epoch, eval_nets, files>>

\* the train pass is over: avg_train_loss appended, iterator over test_dataloader
TrainPassEnd ==
    /\ pc = "train_pass"
    /\ batches_left = 0
    /\ train_loss' = Append(train_loss, Mean(train_loss_epoch))
    /\ batches_left' = NumBatches(Cardinality(test_indices), 1)
    /\ pc' = "test_pass"
    /\ UNCHANGED <<main_vars, config, split_vars, net, test_loss, loop_vars,
                   train_loss_epoch, test_loss_epoch, eval_nets, stepped_in, files>>

\* mutant: optimizer.step() in the test pass too
TestBatchNetStep(w) == w + 1

\* the weights after one test batch (torch.no_grad, no optimizer.step)
TestBatchNet(w) == w

\* one test batch: zero_grad, forward, loss.item() appended
TestBatch ==
    /\ pc = "test_pass"
    /\ batches_left > 0
    /\ \E l \in Losses : test_loss_epoch' = Append(test_loss_epoch, l)
    /\ eval_nets' = eval_nets \cup {net}
    /\ net' = TestBatchNet(net)
    /\ stepped_in' = IF net' # net THEN stepped_in \cup {pc} ELSE stepped_in
    /\ batches_left' = batches_left - 1
    /\ UNCHANGED <<main_vars, pc, config, split_vars, history, loop_vars,
                   train_loss_epoch, files>>

\* mutant: <= for <
ImprovedOrEqual(avg, best) == Lt(avg, best) \/ (~IsNaN(avg) /\ avg = best)

\* mutant: the comparison is the wrong way round
ImprovedReversed(avg, best) == Lt(best, avg)

\* if avg_test_loss < best_loss
Improved(avg, best) == Lt(avg, best)

\* else: early_stopping_counter += 1
Bump(counter) == counter + 1

\* the test pass is over: avg_test_loss appended, checkpoint or counter increment
EpochEnd ==
    /\ pc = "test_pass"
    /\ batches_left = 0
    /\ LET avg_test_loss == Mean(test_loss_epoch)
       IN  /\ test_loss' = Append(test_loss, avg_test_loss)
           /\ IF Improved(avg_test_loss, best_loss)
              THEN /\ best_loss' = avg_test_loss
                   /\ model_pt' = [exists |-> TRUE, weights |-> net, loss |-> avg_test_loss]
                   /\ saved_epochs' = saved_epochs \cup {epoch + 1}
                   /\ early_stopping_counter' = 0
              ELSE /\ early_stopping_counter' = Bump(early_stopping_counter)
                   /\ UNCHANGED <<best_loss, model_pt, saved_epochs>>
    /\ epoch' = epoch + 1
    /\ pc' = "loop"
    /\ UNCHANGED <<main_vars, config, split_vars, net, train_loss, pass_vars, pkl, pkl_saves>>

\* mutant: the histories are saved only when the loop ran all its epochs
AfterLoopUnlessHalted ==
    /\ pc = "after_loop"
    /\ IF epoch = num_epochs
       THEN /\ pkl' = [exists |-> TRUE, train |-> train_loss, test |-> test_loss]
            /\ pkl_saves' = pkl_saves + 1
       ELSE UNCHANGED <<pkl, pkl_saves>>
    /\ pc' = "main"
    /\ UNCHANGED <<main_vars, config, split_vars, net, history, loop_vars, pass_vars,
                   model_pt, saved_epochs>>

\* if self.save_loss: self.save_loss_pkl() -- save_loss is True
AfterLoop ==
    /\ pc = "after_loop"
    /\ pkl' = [exists |-> TRUE, train |-> train_loss, test |-> test_loss]
    /\ pkl_saves' = pkl_saves + 1
    /\ pc' = "main"
    /\ UNCHANGED <<main_vars, config, split_vars, net, history, loop_vars, pass_vars,
                   model_pt, saved_epochs>>

\* The script is run again in the same working directory: same source, same data,
\* same shuffle seed; new flags; Model() is rebuilt; the files on disk stay.
NewInvocation ==
    /\ pc \in {"done", "error"}
    /\ args' \in [train : BOOLEAN, infer : BOOLEAN, curves : BOOLEAN]
    /\ todo' = Branches(args')
    /\ ran' = {}
    /\ pc' = "main"
    /\ net' = 0
    /\ train_loss' = <<>>
    /\ test_loss' = <<>>
    /\ best_loss' = BestLossInit
    /\ early_stopping_counter' = 0
    /\ epoch' = 0
    /\ train_loss_epoch' = <<>>
    /\ test_loss_epoch' = <<>>
    /\ batches_left' = 0
    /\ eval_nets' = {}
    /\ stepped_in' = {}
    /\ saved_epochs' = {}
    /\ pkl_saves' = 0
    /\ UNCHANGED <<config, split_vars, model_pt, pkl>>

Next ==
    \/ NewInvocation
    \/ MainTrain
    \/ MainInfer
    \/ InferData
    \/ MainCurves
    \/ PlotCurves
    \/ MainExit
    \/ LoopExhausted
    \/ EarlyStop
    \/ EpochBegin
    \/ TrainBatch
    \/ TrainPassEnd
    \/ TestBatch
    \/ EpochEnd
    \/ AfterLoop

Spec == Init /\ [][Next]_vars

\* ================================================================ claims
TrainPcs == {"loop", "train_pass", "test_pass", "after_loop"}

Training == "train" \in ran

MinOfSet(S) == CHOOSE x \in S : \A y \in S : x <= y

MaxOfSet(S) == CHOOSE x \in S : \A y \in S : x >= y

\* epoch i of the history h improves on every loss seen before it
Improves(h, i) ==
    /\ ~IsNaN(h[i])
    /\ Lt(h[i], BestLossInit)
    /\ \A j \in 1..(i - 1) : IsNaN(h[j]) \/ Lt(h[i], h[j])

\* the number of most recent consecutive epochs of h that did not improve
Plateau(h) == Len(h) - MaxOfSet({0} \cup {i \in 1..Len(h) : Improves(h, i)})

\* C1: the early-stopping counter starts at 0 and, after every completed epoch, is the
\* number of most recent consecutive epochs whose test loss was not strictly below
\* the best one before them (reset by an improving epoch, +1 by any other, an equal
\* loss being no improvement).
C1_CounterIsPlateau ==
    Training => early_stopping_counter = Plateau(test_loss)

\* two improving epochs around one epoch that repeats the best loss
C1_Witness ==
    /\ Training
    /\ pc = "loop"
    /\ Len(test_loss) = 3
    /\ test_loss[2] = test_loss[1]
    /\ saved_epochs = {1, 3}
    /\ early_stopping_counter = 0

\* C2: training halts exactly at the patience boundary: an epoch runs only while the
\* counter is below early_stopping_epochs, the counter never exceeds it, and the loop
\* is left only with all num_epochs epochs done or with the counter at the boundary.
C2_HaltsAtPatience ==
    Training =>
        /\ early_stopping_counter <= early_stopping_epochs
        /\ pc \in {"train_pass", "test_pass"} => early_stopping_counter < early_stopping_epochs
        /\ pc = "after_loop" =>
              \/ Len(test_loss) = num_epochs
              \/ early_stopping_counter = early_stopping_epochs

\* an early halt after a checkpoint was written and the loss stopped improving
C2_Witness ==
    /\ Training
    /\ pc = "after_loop"
    /\ saved_epochs # {}
    /\ early_stopping_epochs = 1
    /\ early_stopping_counter = 1
    /\ Len(test_loss) < num_epochs

RECURSIVE PyMinFrom(_, _)
PyMinFrom(m, rest) == IF rest = <<>> THEN m
                      ELSE PyMinFrom(IF Lt(Head(rest), m) THEN Head(rest) ELSE m, Tail(rest))

\* min(h) for a non-empty list
PyMin(h) == PyMinFrom(Head(h), Tail(h))

\* C3: ./model.pt is written in an epoch iff that epoch's test loss is strictly below
\* the best so far; once written in this run, the one file holds the weights whose
\* test loss is the minimum of the test_loss history.
C3_CheckpointIsBest ==
    Training =>
        /\ saved_epochs = {i \in 1..Len(test_loss) : Improves(test_loss, i)}
        /\ saved_epochs # {} =>
              /\ model_pt.exists
              /\ model_pt.loss = PyMin(test_loss)
              /\ model_pt.loss = test_loss[MaxOfSet(saved_epochs)]

\* the checkpoint was overwritten once and then kept through a worse epoch
C3_Witness ==
    /\ Training
    /\ pc = "loop"
    /\ saved_epochs = {1, 2}
    /\ Len(test_loss) = 3
    /\ Lt(model_pt.loss, test_loss[3])

IsPartition ==
    /\ train_indices \cap test_indices = {}
    /\ train_indices \cup test_indices = 0..(dataset_size - 1)
    /\ Cardinality(train_indices) + Cardinality(test_indices) = dataset_size

\* C4: the train and test index sets partition 0..N-1 (disjoint, covering, sizes
\* summing to N), and no step of the program changes them after construction.
C4_StaticPartition ==
    /\ []IsPartition
    /\ [][UNCHANGED split_vars]_vars

\* a training run over a dataset with a test sample has finished
C4_Witness ==
    /\ pc = "done"
    /\ Training
    /\ test_indices # {}
    /\ Len(test_loss) = num_epochs
    /\ num_epochs > 0

\* C5: the test set has floor(0.2 * N) indices and the train set the other
\* N - floor(0.2 * N) (an empty test set for N < 5).
C5_EightyTwenty ==
    /\ 5 * Cardinality(test_indices) <= dataset_size
    /\ dataset_size < 5 * (Cardinality(test_indices) + 1)
    /\ Cardinality(train_indices) = dataset_size - Cardinality(test_indices)

\* the smallest dataset with a test sample
C5_Witness ==
    /\ dataset_size = 5
    /\ Cardinality(test_indices) = 1
    /\ Cardinality(train_indices) = 4

\* C6: one train and one test average are appended per completed epoch, so both
\* histories are as long as the number of completed epochs; they are pickled exactly
\* once, when the loop is left, whether it ran out or was halted early.
C6_HistoriesAndSave ==
    Training =>
        /\ Len(test_loss) = epoch
        /\ Len(train_loss) = IF pc = "test_pass" THEN epoch + 1 ELSE epoch
        /\ pc \in TrainPcs => pkl_saves = 0
        /\ pc \notin TrainPcs =>
              /\ pkl_saves = 1
              /\ pkl = [exists |-> TRUE, train |-> train_loss, test |-> test_loss]

\* a run halted by early stopping has saved its histories
C6_Witness ==
    /\ Training
    /\ pc = "done"
    /\ pkl_saves = 1
    /\ Len(test_loss) \in 1..(num_epochs - 1)
    /\ pkl.test = test_loss

\* C7: whatever flags are given, one invocation enters at most one of the modes
\* train, infer, curves, and only a mode whose flag was given.
C7_OneMode ==
    /\ Cardinality(ran) <= 1
    /\ \A m \in ran : args[m]

\* all three flags given: only train ran
C7_Witness ==
    /\ args.train /\ args.infer /\ args.curves
    /\ pc = "done"
    /\ ran = {"train"}

\* the epochs after which the counter stands at the patience boundary
HaltPoints(h, patience) == {i \in 0..Len(h) : Plateau(SubSeq(h, 1, i)) = patience}

\* a measure every step of train() decreases
Rank == IF pc = "after_loop" THEN 0
        ELSE IF pc = "loop" THEN (num_epochs - epoch) * (dataset_size + 4) + 1
        ELSE (num_epochs - epoch - 1) * (dataset_size + 4) + 2 + batches_left
             + (IF pc = "train_pass" THEN Cardinality(test_indices) + 1 ELSE 0)

EpochsAsClaimed ==
    (Training /\ pc \notin {"loop", "train_pass", "test_pass"}) =>
        LET K == HaltPoints(test_loss, early_stopping_epochs)
        IN  Len(test_loss) = IF K = {} THEN num_epochs
                             ELSE MinOfSet({num_epochs, MinOfSet(K)})

TrainStepDecreases ==
    pc \in TrainPcs =>
        /\ Rank >= 0
        /\ pc' \in TrainPcs \cup {"main"}
        /\ pc' \in TrainPcs => Rank' < Rank

\* C8: train() terminates (every step of it decreases Rank) having completed
\* min(num_epochs, k) epochs, k the first epoch after which the counter equals
\* early_stopping_epochs (num_epochs when there is none).
C8_EpochCount ==
    /\ [](EpochsAsClaimed /\ Len(test_loss) <= num_epochs)
    /\ [][TrainStepDecreases]_vars

\* halted after epoch 2 of 3 by a patience of 1
C8_Witness ==
    /\ Training
    /\ pc = "after_loop"
    /\ num_epochs = 3
    /\ early_stopping_epochs = 1
    /\ Len(test_loss) = 2
    /\ saved_epochs = {1}

\* C9: optimizer.step() runs only in the train pass, the test pass leaves the weights
\* alone, and the weights in a checkpoint just written are those the test pass scored.
C9_CheckpointedWeightsWereScored ==
    Training =>
        /\ stepped_in \subseteq {"train_pass"}
        /\ pc = "test_pass" => eval_nets \subseteq {net}
        /\ (pc = "loop" /\ epoch \in saved_epochs) =>
              /\ eval_nets = {model_pt.weights}
              /\ model_pt.weights = net

\* the second epoch improved and was checkpointed
C9_Witness ==
    /\ Training
    /\ pc = "loop"
    /\ epoch = 2
    /\ epoch \in saved_epochs
    /\ model_pt.weights = 2
    /\ stepped_in = {"train_pass"}

\* C10: when train() has finished, both histories have num_epochs entries, as the
\* x axis of plot_curves requires, so plot_curves accepts the histories it is given.
C10_HistoriesFitCurves ==
    /\ (Training /\ pc = "done") =>
          /\ Len(train_loss) = num_epochs
          /\ Len(test_loss) = num_epochs
    /\ pc = "plot" =>
          /\ Len(train_loss) = num_epochs
          /\ Len(test_loss) = num_epochs

====
